---------------------------- MODULE Spec2Model ----------------------------
(***************************************************************************)
(* Model of hoice's instance splitting (src/split.rs) and of the entry     *)
(* point registry and reconstruction of the unsat-core extraction          *)
(* (src/unsat_core/entry_points.rs).                                       *)
(*                                                                         *)
(* The module holds several specifications over one set of variables:      *)
(*   SpecEP        the EntryPoints registry driven by arbitrary calls;     *)
(*   SpecSplitter  a Splitter driven by arbitrary info / next_instance     *)
(*                 calls;                                                  *)
(*   SpecWork      the split loop `work` over a Splitter, preprocessing    *)
(*                 and the teacher;                                        *)
(*   SpecNew       Splitter::new run on an instance;                       *)
(*   SpecRewrite   Entry::rewrite run on an entry;                         *)
(*   SpecSafe      the loop of Reconstr::new over a table of definitions;  *)
(*   SpecReconstr  Reconstr::new and Reconstr::work over a solver;         *)
(* each specification leaves the variables of the other components alone.  *)
(***************************************************************************)
EXTENDS Integers, Sequences, FiniteSets, TLC

(***************************************************************************)
(* Bounds.                                                                 *)
(***************************************************************************)
\* Number of distinct samples the registry is driven with.
NumSamples == 2
\* Largest number of negative clauses of an instance.
MaxNeg == 3
\* Largest number of next_instance calls made on one Splitter.
MaxCalls == 4
\* Largest number of arguments in the original signature of a predicate.
MaxSig == 2
\* Largest number of samples of an Entry.
MaxEntry == 2
\* Number of predicates of the instance a Reconstr is built over.
NumPreds == 3
\* Largest number of clauses of the original instance a Reconstr reads.
MaxClauses == 2

VARIABLES
  \* EntryPoints (entry_points.rs:18-24)
  real_pos_samples,   \* SampleSet: the real positive samples
  pos_sample_map,     \* SampleMap<SampleSet>: a function whose DOMAIN is the key set
  \* the registry call that was made last, with what it returned
  ep_last,
  \* an observer: one result entry_points_of returned earlier, and what was
  \* called since
  ep_seen,
  \* split.rs
  instance,           \* real_instance: the clauses split.rs reads, is_known
  conf,               \* conf.split, conf.infer, conf.preproc.split_sort
  splitter,           \* Splitter (split.rs:153-169)
  sp_info,            \* what the last info call returned
  sp_last,            \* what the last next_instance call returned
  sp_calls,           \* the number of next_instance calls made so far
  preproc_log,        \* the calls made to preproc, oldest first
  \* work (split.rs:20-133)
  model,              \* ConjCandidates: predicate -> list of fragments
  pc,                 \* where work is: "split", "solve" or "done" (returned)
  result,             \* what work returned
  teacher_calls,      \* the number of run_teacher calls made so far
  teacher_last,       \* what run_teacher answered in the current iteration
                      \* of the loop ("none" as long as it was not called)
  \* Splitter::new (split.rs:173-275)
  new_keys,           \* whether new has run, and the number it paired with
                      \* each negative clause before sorting (line 178-210)
  \* Entry::rewrite (entry_points.rs:117-136)
  orig_sigs,          \* per predicate: the length of original_sig() and
                      \* original_sig_map()
  entry_samples,      \* Entry.samples
  rewritten,          \* whether rewrite has run, and the Vec it returned
  \* Reconstr::new (entry_points.rs:183-225)
  pred_defs,          \* per predicate of `instance`: whether pred.def() is
                      \* Some(def), and def.preds()
  safe_preds,         \* PrdSet
  pos_preds,          \* PrdSet
  fp,                 \* the flag of the while loop of line 192
  passes,             \* how many times the body of that loop has run
  \* Reconstr (entry_points.rs:161-179) and Reconstr::work
  original,           \* the clauses of `original` with a right-hand side,
                      \* and what `instance` has at the same index
  to_do,              \* Vec<Sample>, a stack
  rc_samples,         \* Reconstr.samples: the positive samples found
  solver,             \* what was done to the solver: definitions written,
                      \* reset
  cur,                \* the sample work_on_sample is on, with the clauses
                      \* clauses_for gave for it
  queries,            \* the work_on_clause calls made for that sample
  rc_pc,              \* where work is
  rc_result           \* what work returned

ep_vars == <<real_pos_samples, pos_sample_map, ep_last, ep_seen>>

splitter_vars ==
  <<instance, conf, splitter, sp_info, sp_last, sp_calls, preproc_log>>

work_vars == <<model, pc, result, teacher_calls, teacher_last>>

new_vars == <<new_keys>>

\* What the registry, the callers of a Splitter and work leave alone.
rewrite_vars == <<orig_sigs, entry_samples, rewritten>>

\* The variables of the reconstruction of entry points.
safe_vars == <<pred_defs, safe_preds, pos_preds, fp, passes>>

reconstr_vars ==
  <<original, to_do, rc_samples, solver, cur, queries, rc_pc, rc_result>>

recon_vars == <<rewrite_vars, safe_vars, reconstr_vars>>

rest_vars == <<new_vars, recon_vars>>

vars == <<real_pos_samples, pos_sample_map, ep_last, ep_seen,
          instance, conf, splitter, sp_info, sp_last, sp_calls, preproc_log,
          model, pc, result, teacher_calls, teacher_last, new_keys,
          orig_sigs, entry_samples, rewritten,
          pred_defs, safe_preds, pos_preds, fp, passes,
          original, to_do, rc_samples, solver, cur, queries, rc_pc, rc_result>>

(***************************************************************************)
(* EntryPoints: entry_points.rs                                            *)
(***************************************************************************)
Samples == 1 .. NumSamples

\* BTreeMap::remove, BTreeMap::insert and BTreeMap::get on a map kept as a
\* function over its key set.
MapRemove(m, k) == [x \in (DOMAIN m) \ {k} |-> m[x]]

MapInsert(m, k, v) == [x \in (DOMAIN m) \cup {k} |-> IF x = k THEN v ELSE m[x]]

EmptyMap == [x \in {} |-> {}]

\* EntryPoints::new
EntryPointsNew == [real |-> {}, map |-> EmptyMap]

\* EntryPoints::register: the registry after the call.
register(real, map, sample) == [real |-> real \cup {sample}, map |-> map]

\* A register_dep that moves dep's set out of the map instead of reading it.
register_dep_takes_dep(real, map, sample, dep) ==
  LET removed == MapRemove(map, sample)
      set0    == IF sample \in DOMAIN map THEN map[sample] ELSE {}
  IN  IF dep \in real
        THEN [ok |-> TRUE, real |-> real,
              map |-> MapInsert(removed, sample, set0 \cup {dep})]
        ELSE IF dep \in DOMAIN removed
          THEN [ok |-> TRUE, real |-> real,
                map |-> MapInsert(MapRemove(removed, dep), sample,
                                  set0 \cup removed[dep])]
          ELSE [ok |-> FALSE, real |-> real, map |-> removed]

\* A register_dep that records dep itself, whatever the registry knows of it.
register_dep_no_resolve(real, map, sample, dep) ==
  LET removed == MapRemove(map, sample)
      set0    == IF sample \in DOMAIN map THEN map[sample] ELSE {}
  IN  [ok |-> TRUE, real |-> real, map |-> MapInsert(removed, sample, set0 \cup {dep})]

\* A register_dep that starts from an empty set, not from the set `sample` had.
register_dep_fresh_set(real, map, sample, dep) ==
  LET removed == MapRemove(map, sample)
  IN  IF dep \in real
        THEN [ok |-> TRUE, real |-> real, map |-> MapInsert(removed, sample, {dep})]
        ELSE IF dep \in DOMAIN removed
          THEN [ok |-> TRUE, real |-> real,
                map |-> MapInsert(removed, sample, removed[dep])]
          ELSE [ok |-> FALSE, real |-> real, map |-> removed]

\* EntryPoints::register_dep: whether the call returned Ok, and the registry
\* after it.  The entry of `sample` is taken out of the map first (line 58-61)
\* and is put back only on the two successful paths (line 74): the bail! of
\* line 69 returns with the entry removed.
register_dep(real, map, sample, dep) ==
  LET removed == MapRemove(map, sample)
      set0    == IF sample \in DOMAIN map THEN map[sample] ELSE {}
  IN  IF dep \in real
        THEN [ok |-> TRUE, real |-> real,
              map |-> MapInsert(removed, sample, set0 \cup {dep})]
        ELSE IF dep \in DOMAIN removed
          THEN [ok |-> TRUE, real |-> real,
                map |-> MapInsert(removed, sample, set0 \cup removed[dep])]
          ELSE [ok |-> FALSE, real |-> real, map |-> removed]

\* An entry_points_of that looks into the dependency map before the real
\* positive samples.
entry_points_of_map_first(real, map, sample) ==
  IF sample \in DOMAIN map
    THEN [ok |-> TRUE, samples |-> map[sample]]
    ELSE IF sample \in real
      THEN [ok |-> TRUE, samples |-> {sample}]
      ELSE [ok |-> FALSE, samples |-> {}]

\* EntryPoints::entry_points_of: Ok(Entry { samples }) or an error.
entry_points_of(real, map, sample) ==
  IF sample \in real
    THEN [ok |-> TRUE, samples |-> {sample}]
    ELSE IF sample \in DOMAIN map
      THEN [ok |-> TRUE, samples |-> map[sample]]
      ELSE [ok |-> FALSE, samples |-> {}]

(***************************************************************************)
(* Instances, as far as split.rs reads them.                               *)
(***************************************************************************)
\* A clause is [lhs, rhs, strict, unroll]: lhs is the sequence of predicates
\* lhs_preds() iterates over (a hash map: any order, no predicate twice); rhs
\* is {} for a negative clause (rhs() is None) and {p} for the predicate of
\* its right-hand side; strict is is_strict_neg() and unroll is
\* from_unrolling.  The clause at position c of the table is the ClsIdx c - 1.
Preds == {1, 2}

Clause(lhs, rhs, strict, unroll) ==
  [lhs |-> lhs, rhs |-> rhs, strict |-> strict, unroll |-> unroll]

\* The clauses that are not negative, the same in every instance: predicate
\* 1 is in the left-hand side of two clauses that have a right-hand side and
\* has no fact; predicate 2 has a fact (a clause with no predicate in its
\* left-hand side).
Background ==
  << Clause(<<1>>, {1}, FALSE, FALSE),
     Clause(<<1>>, {2}, FALSE, FALSE),
     Clause(<<>>, {2}, FALSE, FALSE) >>

\* The negative clauses an instance is built from.
NegClauses(lhss, stricts, unrolls) ==
  { Clause(l, {}, s, u) : l \in lhss, s \in stricts, u \in unrolls }

\* The instances with at most MaxNeg negative clauses, after the background.
Instances(negs, knowns) ==
  { [clauses |-> Background \o ns, known |-> k] :
      ns \in UNION { [1 .. n -> negs] : n \in 0 .. MaxNeg }, k \in knowns }

\* Instance::is_known
is_known(inst, pred) == pred \in inst.known

\* Instance::neg_clauses
neg_clauses(inst) ==
  { c \in 1 .. Len(inst.clauses) : inst.clauses[c].rhs = {} }

\* Instance::clauses_of(pred).0: the clauses with pred in their left-hand side.
lhs_clauses_of(inst, pred) ==
  { c \in 1 .. Len(inst.clauses) :
      \E i \in 1 .. Len(inst.clauses[c].lhs) : inst.clauses[c].lhs[i] = pred }

\* Instance::clauses_of(pred).1: the clauses with pred as right-hand side.
rhs_clauses_of(inst, pred) ==
  { c \in 1 .. Len(inst.clauses) : inst.clauses[c].rhs = {pred} }

(***************************************************************************)
(* Splitter::new: split.rs:173-275                                         *)
(***************************************************************************)
\* The closure folded over lhs_preds() (line 183-204): what `sum` is after
\* one predicate.
score_step(inst, sum, pred) ==
  LET counted == sum + Cardinality({ c \in lhs_clauses_of(inst, pred) :
                                       inst.clauses[c].rhs # {} })
  IN  IF \E c \in rhs_clauses_of(inst, pred) : Len(inst.clauses[c].lhs) = 0
        THEN 0
        ELSE counted

\* lhs_preds().iter().fold(0, ...) over the predicates of `lhs` from
\* position i on.
RECURSIVE score_fold(_, _, _, _)
score_fold(inst, lhs, i, sum) ==
  IF i > Len(lhs) THEN sum
  ELSE score_fold(inst, lhs, i + 1, score_step(inst, sum, lhs[i]))

\* The number paired with clause c (line 181-208).
clause_key(inst, cf, c) ==
  IF cf.split_sort
    THEN score_fold(inst, inst.clauses[c].lhs, 1, 0)
    ELSE -(c - 1)

\* The comparator of sort_unstable_by (line 213-232): -1 for Less, 0 for
\* Equal, 1 for Greater.
clause_cmp(inst, cf, c_1, c_2) ==
  LET cl_1 == inst.clauses[c_1]
      cl_2 == inst.clauses[c_2]
      count_1 == clause_key(inst, cf, c_1)
      count_2 == clause_key(inst, cf, c_2)
  IN  IF cl_1.strict /\ ~cl_2.strict THEN 1
      ELSE IF ~cl_1.strict /\ cl_2.strict THEN -1
      ELSE IF cl_1.unroll /\ ~cl_2.unroll THEN 1
      ELSE IF ~cl_1.unroll /\ cl_2.unroll THEN -1
      ELSE IF count_1 < count_2 THEN -1
      ELSE IF count_1 > count_2 THEN 1
      ELSE 0

\* The orders sort_unstable_by can leave the negative clauses in: every
\* arrangement of them in which no clause is Greater than a later one (the
\* sort is not stable, and neg_clauses() is a hash set).
SortedOrders(inst, cf) ==
  LET negs == neg_clauses(inst)
      n == Cardinality(negs)
  IN  { o \in [1 .. n -> negs] :
          /\ \A i, j \in 1 .. n : i # j => o[i] # o[j]
          /\ \A i, j \in 1 .. n : i < j => clause_cmp(inst, cf, o[i], o[j]) <= 0 }

\* Splitter::new with the negative clauses sorted into `order`.  A Splitter
\* is [active, pending, once, clause_count, prev_clauses]: `clauses` is
\* Left(pending) when active and Right(once) when not.
SplitterNew(inst, cf, order) ==
  IF cf.split /\ Cardinality(neg_clauses(inst)) > 1
    THEN IF Len(order) <= 1
           THEN [active |-> FALSE, pending |-> <<>>, once |-> FALSE,
                 clause_count |-> Len(order), prev_clauses |-> {}]
           ELSE [active |-> TRUE, pending |-> order, once |-> FALSE,
                 clause_count |-> Len(order), prev_clauses |-> {}]
    ELSE [active |-> FALSE, pending |-> <<>>, once |-> FALSE,
          clause_count |-> 1, prev_clauses |-> {}]

(***************************************************************************)
(* Splitter::info and Splitter::next_instance: split.rs:286-334            *)
(***************************************************************************)
\* What a call returned: kind says which value, clause / handled / total are
\* info's triple, m is the model of a Right(Some(model)).
Ret(kind) == [kind |-> kind, clause |-> 0, handled |-> 0, total |-> 0, m |-> <<>>]

\* Splitter::info
info(sp) ==
  IF sp.active /\ Len(sp.pending) > 0
    THEN [Ret("info") EXCEPT !.clause = sp.pending[Len(sp.pending)],
                             !.handled = sp.clause_count - Len(sp.pending),
                             !.total = sp.clause_count]
    ELSE Ret("none")

\* What preproc (line 347-365) can answer: a sub-instance, a trivial model
\* (is_trivial_model gives Some(Some(model))), unsat (Some(None)), or an error
\* of work_on_split or is_trivial_model.
PreprocAnswers(models) ==
  {[kind |-> "instance", m |-> <<>>], [kind |-> "unsat", m |-> <<>>],
   [kind |-> "error", m |-> <<>>]}
    \cup {[kind |-> "model", m |-> m] : m \in models}

\* A next_instance that does not set `once` when an inactive splitter fires.
next_instance_keeps_firing(sp, answer) ==
  IF sp.active
    THEN IF Len(sp.pending) > 0
      THEN LET clause == sp.pending[Len(sp.pending)]
               popped == [sp EXCEPT !.pending = SubSeq(@, 1, Len(@) - 1)]
               call   == <<[clause |-> clause, prev_clauses |-> sp.prev_clauses]>>
           IN  IF answer.kind = "error"
                 THEN [splitter |-> popped, ret |-> Ret("error"), preproc |-> call]
                 ELSE [splitter |-> [popped EXCEPT !.prev_clauses = @ \cup {clause}],
                       ret |-> [Ret(answer.kind) EXCEPT !.m = answer.m],
                       preproc |-> call]
      ELSE [splitter |-> sp, ret |-> Ret("done"), preproc |-> <<>>]
    ELSE [splitter |-> sp, ret |-> Ret("top"), preproc |-> <<>>]

\* A next_instance that is done when one clause is left pending.
next_instance_stops_early(sp, answer) ==
  IF sp.active
    THEN IF Len(sp.pending) > 1
      THEN LET clause == sp.pending[Len(sp.pending)]
               popped == [sp EXCEPT !.pending = SubSeq(@, 1, Len(@) - 1)]
               call   == <<[clause |-> clause, prev_clauses |-> sp.prev_clauses]>>
           IN  IF answer.kind = "error"
                 THEN [splitter |-> popped, ret |-> Ret("error"), preproc |-> call]
                 ELSE [splitter |-> [popped EXCEPT !.prev_clauses = @ \cup {clause}],
                       ret |-> [Ret(answer.kind) EXCEPT !.m = answer.m],
                       preproc |-> call]
      ELSE [splitter |-> sp, ret |-> Ret("done"), preproc |-> <<>>]
    ELSE IF sp.once
      THEN [splitter |-> sp, ret |-> Ret("done"), preproc |-> <<>>]
      ELSE [splitter |-> [sp EXCEPT !.once = TRUE], ret |-> Ret("top"),
            preproc |-> <<>>]

\* A next_instance that takes the first pending clause, not the last.
next_instance_pops_front(sp, answer) ==
  IF sp.active
    THEN IF Len(sp.pending) > 0
      THEN LET clause == Head(sp.pending)
               popped == [sp EXCEPT !.pending = Tail(sp.pending)]
               call   == <<[clause |-> clause, prev_clauses |-> sp.prev_clauses]>>
           IN  IF answer.kind = "error"
                 THEN [splitter |-> popped, ret |-> Ret("error"), preproc |-> call]
                 ELSE [splitter |-> [popped EXCEPT !.prev_clauses = @ \cup {clause}],
                       ret |-> [Ret(answer.kind) EXCEPT !.m = answer.m],
                       preproc |-> call]
      ELSE [splitter |-> sp, ret |-> Ret("done"), preproc |-> <<>>]
    ELSE IF sp.once
      THEN [splitter |-> sp, ret |-> Ret("done"), preproc |-> <<>>]
      ELSE [splitter |-> [sp EXCEPT !.once = TRUE], ret |-> Ret("top"),
            preproc |-> <<>>]

\* Splitter::next_instance, preproc answering `answer` if it is called: the
\* splitter after the call, what the call returned ("top" is the instance of
\* the splitter itself, "done" is None, "error" an Err), and the call made to
\* preproc (none, or one [clause, prev_clauses]).  The clause is popped before
\* preproc is called and inserted into prev_clauses after it returned without
\* error (the ? of line 314 returns before line 315).
next_instance(sp, answer) ==
  IF sp.active
    THEN IF Len(sp.pending) > 0
      THEN LET clause == sp.pending[Len(sp.pending)]
               popped == [sp EXCEPT !.pending = SubSeq(@, 1, Len(@) - 1)]
               call   == <<[clause |-> clause, prev_clauses |-> sp.prev_clauses]>>
           IN  IF answer.kind = "error"
                 THEN [splitter |-> popped, ret |-> Ret("error"), preproc |-> call]
                 ELSE [splitter |-> [popped EXCEPT !.prev_clauses = @ \cup {clause}],
                       ret |-> [Ret(answer.kind) EXCEPT !.m = answer.m],
                       preproc |-> call]
      ELSE [splitter |-> sp, ret |-> Ret("done"), preproc |-> <<>>]
    ELSE IF sp.once
      THEN [splitter |-> sp, ret |-> Ret("done"), preproc |-> <<>>]
      ELSE [splitter |-> [sp EXCEPT !.once = TRUE], ret |-> Ret("top"),
            preproc |-> <<>>]

(***************************************************************************)
(* A Splitter driven by its callers.                                       *)
(***************************************************************************)
\* The configurations: conf.preproc.split_sort is read only when conf.split
\* holds (line 174 and 181), so it is left off when splitting is off.
Confs(infers) ==
  { cf \in [split : BOOLEAN, infer : infers, split_sort : BOOLEAN] :
      cf.split_sort => cf.split }

\* The instances the splitter is built over: negative clauses strictly
\* negative or not, from unrolling or not, over predicate 1 or predicate 2
\* (without scoring, line 207, the left-hand sides are not read: predicate 1).
SplitterInstances(cf) ==
  Instances(NegClauses(IF cf.split_sort THEN {<<1>>, <<2>>} ELSE {<<1>>},
                       BOOLEAN, BOOLEAN),
            {{}})

InitSplitter ==
  /\ conf \in Confs({FALSE})
  /\ instance \in SplitterInstances(conf)
  /\ \E order \in SortedOrders(instance, conf) :
       splitter = SplitterNew(instance, conf, order)
  /\ sp_info = Ret("new")
  /\ sp_last = Ret("new")
  /\ sp_calls = 0
  /\ preproc_log = <<>>

\* One step of a caller: info, then next_instance, as the head of the split
\* loop calls them (line 52 and 67).
Advance ==
  /\ sp_calls < MaxCalls
  /\ \E answer \in PreprocAnswers({<<>>}) :
       LET r == next_instance(splitter, answer)
       IN  /\ sp_info' = info(splitter)
           /\ splitter' = r.splitter
           /\ sp_last' = r.ret
           /\ sp_calls' = sp_calls + 1
           /\ preproc_log' = preproc_log \o r.preproc
           /\ UNCHANGED <<instance, conf>>

NextSplitter == Advance /\ UNCHANGED <<ep_vars, work_vars, rest_vars>>

(***************************************************************************)
(* Splitter::new run on an instance.                                       *)
(***************************************************************************)
\* new_keys before new has run.
NoKeys == [done |-> FALSE, keys |-> <<>>]

\* The variable `splitter` as long as no Splitter is built.
NoSplitter ==
  [active |-> FALSE, pending |-> <<>>, once |-> FALSE, clause_count |-> 0,
   prev_clauses |-> {}]

\* The vector of (clause, key) pairs of line 178-210: built only when
\* conf.split holds and the instance has more than one negative clause
\* (line 174-175).
paired_keys(inst, cf) ==
  IF cf.split /\ Cardinality(neg_clauses(inst)) > 1
    THEN [c \in neg_clauses(inst) |-> clause_key(inst, cf, c)]
    ELSE <<>>

\* The instances new is run on: strictly negative clauses whose lhs_preds()
\* iterates over predicate 1, over predicate 2, or over both in either order.
NewInstances ==
  Instances(NegClauses({<<1>>, <<2>>, <<1, 2>>, <<2, 1>>}, {TRUE}, {FALSE}),
            {{}})

InitNew ==
  /\ conf \in { cf \in Confs({FALSE}) : cf.split }
  /\ instance \in NewInstances
  /\ splitter = NoSplitter
  /\ sp_info = Ret("new")
  /\ sp_last = Ret("new")
  /\ sp_calls = 0
  /\ preproc_log = <<>>
  /\ new_keys = NoKeys

\* Splitter::new(instance).
New ==
  /\ ~new_keys.done
  /\ new_keys' = [done |-> TRUE, keys |-> paired_keys(instance, conf)]
  /\ \E order \in SortedOrders(instance, conf) :
       splitter' = SplitterNew(instance, conf, order)
  /\ UNCHANGED <<instance, conf, sp_info, sp_last, sp_calls, preproc_log>>

NextNew == New /\ UNCHANGED <<ep_vars, work_vars, recon_vars>>

\* Splitter::new not observed.
IdleNew == new_keys = NoKeys


(***************************************************************************)
(* work: split.rs:20-133                                                   *)
(***************************************************************************)
\* The fragments (TTerms) models are made of: the two boolean ones and two
\* that are not boolean.
Frags == {"true", "false", "a", "b"}

\* TTerms::bool, as model!(add ..) reads it (line 32-36 and 39).
tterms_bool(tterms) ==
  IF tterms = "true" THEN "Some(true)"
  ELSE IF tterms = "false" THEN "Some(false)"
  ELSE "None"

\* ConjCandidates::new (line 23): no predicate has an entry.
EmptyModel == [pred \in {} |-> <<>>]

\* The candidates with the entry of pred set to conj.
with_entry(mdl, pred, conj) ==
  [q \in (DOMAIN mdl) \cup {pred} |-> IF q = pred THEN conj ELSE mdl[q]]

\* A model!(add ..) step that pushes without looking for the fragment or for
\* false in the list.
model_add_pair_no_check(inst, mdl, pred, tterms) ==
  IF is_known(inst, pred) THEN mdl
  ELSE
    LET conj == IF pred \in DOMAIN mdl THEN mdl[pred] ELSE <<>>
    IN  IF tterms_bool(tterms) = "Some(true)" THEN with_entry(mdl, pred, conj)
        ELSE with_entry(mdl, pred,
               Append(IF tterms_bool(tterms) = "Some(false)" THEN <<>> ELSE conj,
                      tterms))

\* The body of the loop of model!(add ..) for one (pred, tterms) (line 28-43).
\* The entry is created (line 29-31) before tterms is looked at.
model_add_pair(inst, mdl, pred, tterms) ==
  IF is_known(inst, pred) THEN mdl
  ELSE
    LET conj    == IF pred \in DOMAIN mdl THEN mdl[pred] ELSE <<>>
        cleared == IF tterms_bool(tterms) = "Some(false)" THEN <<>> ELSE conj
    IN  IF tterms_bool(tterms) = "Some(true)" THEN with_entry(mdl, pred, conj)
        ELSE IF \E i \in 1 .. Len(cleared) :
                  \/ cleared[i] = tterms
                  \/ tterms_bool(cleared[i]) = "Some(false)"
          THEN with_entry(mdl, pred, cleared)
          ELSE with_entry(mdl, pred, Append(cleared, tterms))

\* model!(add this_model) (line 25-46): this_model is a sequence of
\* <<pred, tterms>>, gone through from position i on.
RECURSIVE model_add_from(_, _, _, _)
model_add_from(inst, mdl, this_model, i) ==
  IF i > Len(this_model) THEN mdl
  ELSE model_add_from(inst,
         model_add_pair(inst, mdl, this_model[i][1], this_model[i][2]),
         this_model, i + 1)

model_add(inst, mdl, this_model) == model_add_from(inst, mdl, this_model, 1)

\* What work returns: "model" is Ok(Some(Left(model))), "none" is Ok(None),
\* "unsat" is Ok(Some(Right(reason))), "unsat_error" the error of unsat! (line
\* 76), "error" any other error; "running" while it has not returned.
Res(kind) == [kind |-> kind, model |-> EmptyModel]

\* The end of work once the loop is left (line 128-132).
loop_exit(cf, mdl) ==
  IF cf.infer THEN [Res("model") EXCEPT !.model = mdl] ELSE Res("none")

\* A loop body that goes on to the teacher without looking at conf.infer.
split_branch_always_learns(inst, cf, mdl, ret) ==
  IF ret.kind = "done"
    THEN [pc |-> "done", result |-> loop_exit(cf, mdl), model |-> mdl]
  ELSE IF ret.kind = "error"
    THEN [pc |-> "done", result |-> Res("error"), model |-> mdl]
  ELSE IF ret.kind = "unsat"
    THEN [pc |-> "done", result |-> Res("unsat_error"), model |-> mdl]
  ELSE IF ret.kind = "model"
    THEN [pc |-> "split", result |-> Res("running"),
          model |-> model_add(inst, mdl, ret.m)]
  ELSE [pc |-> "solve", result |-> Res("running"), model |-> mdl]

\* The loop of work from what next_instance returned to run_teacher (line
\* 50-100): where work goes on, what it has returned, and the candidates.
split_branch(inst, cf, mdl, ret) ==
  IF ret.kind = "done"
    THEN [pc |-> "done", result |-> loop_exit(cf, mdl), model |-> mdl]
  ELSE IF ret.kind = "error"
    THEN [pc |-> "done", result |-> Res("error"), model |-> mdl]
  ELSE IF ret.kind = "unsat"
    THEN [pc |-> "done", result |-> Res("unsat_error"), model |-> mdl]
  ELSE IF ret.kind = "model"
    THEN [pc |-> "split", result |-> Res("running"),
          model |-> model_add(inst, mdl, ret.m)]
  ELSE IF ~cf.infer
    THEN [pc |-> "split", result |-> Res("running"), model |-> mdl]
    ELSE [pc |-> "solve", result |-> Res("running"), model |-> mdl]

\* What run_teacher, model_of and simplify_pred_defs (line 102-117) can
\* answer: a model of the sub-instance, unsat, or an error.
TeacherAnswers(models) ==
  {[kind |-> "unsat", m |-> <<>>], [kind |-> "error", m |-> <<>>]}
    \cup {[kind |-> "sat", m |-> m] : m \in models}

\* A loop body that goes on with the next clause when the teacher says unsat.
teacher_branch_continues(inst, mdl, answer) ==
  IF answer.kind = "error"
    THEN [pc |-> "done", result |-> Res("error"), model |-> mdl]
  ELSE IF answer.kind = "sat"
    THEN [pc |-> "split", result |-> Res("running"),
          model |-> model_add(inst, mdl, answer.m)]
    ELSE [pc |-> "split", result |-> Res("running"), model |-> mdl]

\* The loop of work from the answer of run_teacher on (line 102-124).
teacher_branch(inst, mdl, answer) ==
  IF answer.kind = "error"
    THEN [pc |-> "done", result |-> Res("error"), model |-> mdl]
  ELSE IF answer.kind = "sat"
    THEN [pc |-> "split", result |-> Res("running"),
          model |-> model_add(inst, mdl, answer.m)]
    ELSE [pc |-> "done", result |-> Res("unsat"), model |-> mdl]

(***************************************************************************)
(* work, with preprocessing and the teacher answering.                     *)
(***************************************************************************)
\* The models preprocessing and the teacher answer with: no pair or one
\* (model!(add ..) goes through a longer model pair by pair).
WorkModels ==
  {<<>>} \cup { << <<pred, tterms>> >> : pred \in Preds, tterms \in Frags }

\* The instances work is run on: strictly negative clauses over predicate 1;
\* predicate 2 is known (defined) in some.
WorkInstances ==
  Instances(NegClauses({<<1>>}, {TRUE}, {FALSE}), {{}, {2}})

InitWork ==
  /\ conf \in Confs(BOOLEAN)
  /\ instance \in WorkInstances
  /\ \E order \in SortedOrders(instance, conf) :
       splitter = SplitterNew(instance, conf, order)
  /\ sp_info = Ret("new")
  /\ sp_last = Ret("new")
  /\ sp_calls = 0
  /\ preproc_log = <<>>
  /\ model = EmptyModel
  /\ pc = "split"
  /\ result = Res("running")
  /\ teacher_calls = 0
  /\ teacher_last = [kind |-> "none", m |-> <<>>]

\* The head of the loop and its body up to run_teacher: info, next_instance
\* (line 50-68), then line 69-100.
SplitStep ==
  /\ pc = "split"
  /\ \E answer \in PreprocAnswers(WorkModels) :
       LET r == next_instance(splitter, answer)
           b == split_branch(instance, conf, model, r.ret)
       IN  /\ sp_info' = info(splitter)
           /\ splitter' = r.splitter
           /\ sp_last' = r.ret
           /\ sp_calls' = sp_calls + 1
           /\ preproc_log' = preproc_log \o r.preproc
           /\ pc' = b.pc
           /\ result' = b.result
           /\ model' = b.model
           /\ teacher_last' = [kind |-> "none", m |-> <<>>]
           /\ UNCHANGED <<instance, conf, teacher_calls>>

\* run_teacher on the sub-instance and the rest of the body (line 102-124).
Solve ==
  /\ pc = "solve"
  /\ \E answer \in TeacherAnswers(WorkModels) :
       LET b == teacher_branch(instance, model, answer)
       IN  /\ teacher_calls' = teacher_calls + 1
           /\ teacher_last' = answer
           /\ pc' = b.pc
           /\ result' = b.result
           /\ model' = b.model
           /\ UNCHANGED <<instance, conf, splitter, sp_info, sp_last, sp_calls,
                          preproc_log>>

NextWork ==
  \/ SplitStep /\ UNCHANGED <<ep_vars, rest_vars>>
  \/ Solve /\ UNCHANGED <<ep_vars, rest_vars>>

\* work not called.
IdleWork ==
  /\ model = EmptyModel
  /\ pc = "idle"
  /\ result = Res("running")
  /\ teacher_calls = 0
  /\ teacher_last = [kind |-> "none", m |-> <<>>]

(***************************************************************************)
(* Entry::rewrite: entry_points.rs:117-136                                 *)
(***************************************************************************)
\* val::none(typ): the value of an argument that is not known.
val_none == 0

\* The values of the arguments of a sample.
Vals == {1, 2}

\* A sample is [pred, args]; args is the sequence of its arguments.
Sample(pred, args) == [pred |-> pred, args |-> args]

\* The order of a VarVals: argument by argument, the shorter first.
RECURSIVE args_lt(_, _, _)
args_lt(a, b, i) ==
  IF i > Len(a) THEN i <= Len(b)
  ELSE IF i > Len(b) THEN FALSE
  ELSE IF a[i] # b[i] THEN a[i] < b[i]
  ELSE args_lt(a, b, i + 1)

\* The order of the samples of a SampleSet: by predicate, then by arguments.
sample_lt(s_1, s_2) ==
  \/ s_1.pred < s_2.pred
  \/ s_1.pred = s_2.pred /\ args_lt(s_1.args, s_2.args, 1)

\* The samples of a SampleSet in the order `for .. in &self.samples` visits
\* them (line 120).
in_order(samples) ==
  CHOOSE o \in [1 .. Cardinality(samples) -> samples] :
    \A i, j \in 1 .. Cardinality(samples) : i < j => sample_lt(o[i], o[j])

\* The signatures a predicate can have: the length of original_sig() and
\* original_sig_map(), which gives for each argument of the current
\* signature its position in the original one; the arguments of the current
\* signature are arguments of the original one, in the same order.
Sigs ==
  { [len |-> n, map |-> m] :
      n \in 0 .. MaxSig,
      m \in UNION { [1 .. k -> 1 .. MaxSig] : k \in 0 .. MaxSig } }

SigsOk ==
  { sg \in Sigs :
      /\ \A var \in 1 .. Len(sg.map) : sg.map[var] <= sg.len
      /\ \A v_1, v_2 \in 1 .. Len(sg.map) : v_1 < v_2 => sg.map[v_1] < sg.map[v_2] }

\* The loop of line 127-130 from argument `var` on: nu_args[old_var] = val.
RECURSIVE rewrite_args(_, _, _, _)
rewrite_args(sg, args, nu_args, var) ==
  IF var > Len(args) THEN nu_args
  ELSE rewrite_args(
         sg, args, [nu_args EXCEPT ![sg.map[var]] = args[var]], var + 1)

\* A rewrite that keeps each value at the position it has in the current
\* signature.
rewrite_sample_same_position(sigs, sample) ==
  Sample(sample.pred,
         [i \in 1 .. sigs[sample.pred].len |->
            IF i <= Len(sample.args) THEN sample.args[i] ELSE val_none])

\* The body of the loop of line 120-133 for one sample.
rewrite_sample(sigs, sample) ==
  LET sg == sigs[sample.pred]
      nu_args == [i \in 1 .. sg.len |-> val_none]
  IN  Sample(sample.pred, rewrite_args(sg, sample.args, nu_args, 1))

\* Entry::rewrite: the Vec of the rewritten samples.
rewrite(sigs, samples) ==
  LET o == in_order(samples)
  IN  [i \in 1 .. Cardinality(samples) |-> rewrite_sample(sigs, o[i])]

\* The samples over the current signature of the predicates.
SamplesOver(sigs) ==
  { Sample(pred, args) : pred \in Preds,
      args \in UNION { [1 .. k -> Vals] : k \in 0 .. MaxSig } }

InitRewrite ==
  /\ orig_sigs \in [Preds -> SigsOk]
  /\ entry_samples \in
       { e \in SUBSET { s \in SamplesOver(orig_sigs) :
                          Len(s.args) = Len(orig_sigs[s.pred].map) } :
           Cardinality(e) <= MaxEntry }
  /\ rewritten = [done |-> FALSE, samples |-> <<>>]

\* self.rewrite(instance), as Entry::reconstruct calls it (line 140).
Rewrite ==
  /\ ~rewritten.done
  /\ rewritten' = [done |-> TRUE, samples |-> rewrite(orig_sigs, entry_samples)]
  /\ UNCHANGED <<orig_sigs, entry_samples>>

NextRewrite ==
  Rewrite /\ UNCHANGED <<ep_vars, splitter_vars, work_vars, new_vars, safe_vars,
                        reconstr_vars>>

\* rewrite not called.
IdleRewrite ==
  /\ orig_sigs = [pred \in Preds |-> [len |-> 0, map |-> <<>>]]
  /\ entry_samples = {}
  /\ rewritten = [done |-> FALSE, samples |-> <<>>]

(***************************************************************************)
(* Reconstr::new: entry_points.rs:183-225                                  *)
(***************************************************************************)
\* instance.preds(): the predicates, in the order of their indices.
InstPreds == 1 .. NumPreds

\* pred.def() of a predicate: None, or Some(def) with def.preds() = preds.
NoDef == [defined |-> FALSE, preds |-> {}]

Def(preds) == [defined |-> TRUE, preds |-> preds]

\* What the loop works on: [safe, pos, fp].
LoopState(safe, pos, flag) == [safe |-> safe, pos |-> pos, fp |-> flag]

\* A body that takes a predicate for safe when the only unsafe predicate its
\* definition mentions is itself.
pass_step_ignores_self(defs, st, pred) ==
  IF pred \in st.safe THEN st
  ELSE IF defs[pred].defined
    THEN LET pos == IF defs[pred].preds = {} THEN st.pos \cup {pred} ELSE st.pos
         IN  IF (defs[pred].preds \ {pred}) \subseteq st.safe
               THEN LoopState(st.safe \cup {pred}, pos, FALSE)
               ELSE LoopState(st.safe, pos, st.fp)
    ELSE st

\* A body that takes every predicate with a definition for safe.
pass_step_any_defined(defs, st, pred) ==
  IF pred \in st.safe THEN st
  ELSE IF defs[pred].defined
    THEN LET pos == IF defs[pred].preds = {} THEN st.pos \cup {pred} ELSE st.pos
         IN  LoopState(st.safe \cup {pred}, pos, FALSE)
    ELSE st

\* A body that asks for another pass whenever it meets a predicate with a
\* definition that is not safe yet.
pass_step_retries_defined(defs, st, pred) ==
  IF pred \in st.safe THEN st
  ELSE IF defs[pred].defined
    THEN LET pos == IF defs[pred].preds = {} THEN st.pos \cup {pred} ELSE st.pos
         IN  IF defs[pred].preds \subseteq st.safe
               THEN LoopState(st.safe \cup {pred}, pos, FALSE)
               ELSE LoopState(st.safe, pos, FALSE)
    ELSE st

\* The body of `for pred in instance.preds()` (line 195-205).
pass_step(defs, st, pred) ==
  IF pred \in st.safe THEN st
  ELSE IF defs[pred].defined
    THEN LET pos == IF defs[pred].preds = {} THEN st.pos \cup {pred} ELSE st.pos
         IN  IF defs[pred].preds \subseteq st.safe
               THEN LoopState(st.safe \cup {pred}, pos, FALSE)
               ELSE LoopState(st.safe, pos, st.fp)
    ELSE st

\* The for loop of line 194-206 from predicate `pred` on.
RECURSIVE pass_from(_, _, _)
pass_from(defs, st, pred) ==
  IF pred \notin DOMAIN defs THEN st
  ELSE pass_from(defs, pass_step(defs, st, pred), pred + 1)

\* The body of the while loop (line 193-206): fp = true, then the for loop.
pass(defs, st) == pass_from(defs, [st EXCEPT !.fp = TRUE], 1)

\* The instances: each predicate has no definition, or one that mentions any
\* of the predicates.
PredDefs == [InstPreds -> {NoDef} \cup { Def(ps) : ps \in SUBSET InstPreds }]

\* The loop is left running at most this many times, one more than C18 needs.
PassCap == NumPreds + 2

\* Line 189-191.
InitSafe ==
  /\ pred_defs \in PredDefs
  /\ safe_preds = {}
  /\ pos_preds = {}
  /\ fp = FALSE
  /\ passes = 0

\* One run of the body of `while !fp` (line 192-207).
Pass ==
  /\ ~fp
  /\ passes < PassCap
  /\ LET st == pass(pred_defs, LoopState(safe_preds, pos_preds, fp))
     IN  /\ safe_preds' = st.safe
         /\ pos_preds' = st.pos
         /\ fp' = st.fp
  /\ passes' = passes + 1
  /\ UNCHANGED pred_defs

NextSafe ==
  Pass /\ UNCHANGED <<ep_vars, splitter_vars, work_vars, new_vars, rewrite_vars,
                     reconstr_vars>>

\* No Reconstr built.
IdleSafe ==
  /\ pred_defs = [pred \in InstPreds |-> NoDef]
  /\ safe_preds = {}
  /\ pos_preds = {}
  /\ fp = FALSE
  /\ passes = 0

(***************************************************************************)
(* Reconstr::work: entry_points.rs:227-370                                 *)
(***************************************************************************)
\* A clause of `original` with a right-hand side: the predicate of the
\* right-hand side, the predicates of lhs_preds(), and whether the clause of
\* `instance` at the same index has a right-hand side ("same") or has none
\* ("none"): work_on_clause reads self.instance[clause].rhs() (line 256 and
\* 274).
OrigClause(rhs, lhs, inst_rhs) ==
  [rhs |-> rhs, lhs |-> lhs, inst_rhs |-> inst_rhs]

\* The arrangements of a set of clause indices: rhs_clauses_of gives a hash
\* set, which the loop of line 237 visits in any order.
Orders(set) ==
  { o \in [1 .. Cardinality(set) -> set] :
      \A i, j \in 1 .. Cardinality(set) : i # j => o[i] # o[j] }

\* A clauses_for that gives the clauses with a left-hand side first.
clauses_for_usable_first(orig, safe, pred) ==
  LET of_pred == { c \in 1 .. Len(orig) : orig[c].rhs = pred }
      facts   == { c \in of_pred : orig[c].lhs = {} }
      usable  == { c \in of_pred \ facts : orig[c].lhs \subseteq safe }
  IN  { [pos |-> o, others |-> ps] : ps \in Orders(facts), o \in Orders(usable) }

\* Reconstr::clauses_for (line 234-249): the (pos, others) pairs it can
\* return.
clauses_for(orig, safe, pred) ==
  LET of_pred == { c \in 1 .. Len(orig) : orig[c].rhs = pred }
      facts   == { c \in of_pred : orig[c].lhs = {} }
      usable  == { c \in of_pred \ facts : orig[c].lhs \subseteq safe }
  IN  { [pos |-> ps, others |-> o] : ps \in Orders(facts), o \in Orders(usable) }

\* What the solver and the evaluation of the arguments answer to one
\* work_on_clause call on a clause with lhs_preds() = lhs:
\*   "solver_error"  a solver call before check_sat fails (line 257-272);
\*   "check_error"   check_sat, get_model, fix_model, pop or of_model fails
\*                   (line 281-293);
\*   "unsat"         check_sat answers false;
\*   "sat"           check_sat answers true, and vals[p] is what the
\*                   arguments of the application of p evaluate to;
\*   "eval_error"    the same, but eval fails (line 300) after the
\*                   applications of the predicates of `handled`.
WitnessAnswers(lhs) ==
  { [kind |-> k, vals |-> <<>>, handled |-> {}] :
      k \in {"solver_error", "check_error", "unsat"} }
  \cup { [kind |-> "sat", vals |-> v, handled |-> lhs] : v \in [lhs -> Vals] }
  \cup { [kind |-> "eval_error", vals |-> v, handled |-> h] :
           v \in [lhs -> Vals], h \in (SUBSET lhs) \ {lhs} }

\* The samples line 295-308 adds for the predicates of `handled`.
lhs_samples(pos, answer) ==
  { Sample(p, <<answer.vals[p]>>) : p \in answer.handled \cap pos }

\* What a work_on_clause call gives: "true" for Ok(true), "false" for
\* Ok(false), "illegal" for the bail! of line 278, "error" for another Err,
\* "panic" when the debug_assert! of line 256 fails; and the samples after.
Witnessed(outcome, smpls) == [outcome |-> outcome, samples |-> smpls]

\* A work_on_clause that keeps the samples of every safe predicate.
work_on_clause_keeps_safe(orig, safe, pos, smpls, clause, answer, debug) ==
  IF orig[clause].inst_rhs # "same" /\ debug THEN Witnessed("panic", smpls)
  ELSE IF answer.kind = "solver_error" THEN Witnessed("error", smpls)
  ELSE IF orig[clause].inst_rhs # "same" THEN Witnessed("illegal", smpls)
  ELSE IF answer.kind = "check_error" THEN Witnessed("error", smpls)
  ELSE IF answer.kind = "unsat" THEN Witnessed("false", smpls)
  ELSE IF answer.kind = "eval_error"
    THEN Witnessed("error", smpls \cup lhs_samples(safe, answer))
    ELSE Witnessed("true", smpls \cup lhs_samples(safe, answer))

\* Reconstr::work_on_clause (line 255-313); debug: whether debug assertions
\* are compiled in.
work_on_clause(orig, safe, pos, smpls, clause, answer, debug) ==
  IF orig[clause].inst_rhs # "same" /\ debug THEN Witnessed("panic", smpls)
  ELSE IF answer.kind = "solver_error" THEN Witnessed("error", smpls)
  ELSE IF orig[clause].inst_rhs # "same" THEN Witnessed("illegal", smpls)
  ELSE IF answer.kind = "check_error" THEN Witnessed("error", smpls)
  ELSE IF answer.kind = "unsat" THEN Witnessed("false", smpls)
  ELSE IF answer.kind = "eval_error"
    THEN Witnessed("error", smpls \cup lhs_samples(pos, answer))
    ELSE Witnessed("true", smpls \cup lhs_samples(pos, answer))

\* No sample worked on yet.
NoSample == [some |-> FALSE, sample |-> Sample(1, <<>>), clauses |-> <<>>]

\* What work returns with after a work_on_clause call that gave `outcome`,
\* `left` clauses being left to try: the `?` of line 336 and 343 and of line
\* 365, the return of line 339 and 346, the bail! of line 350.
after_clause(outcome, left) ==
  IF outcome = "true" THEN [pc |-> "loop", result |-> "running"]
  ELSE IF outcome = "false"
    THEN IF left = 0
           THEN [pc |-> "done", result |-> "unreconstructable"]
           ELSE [pc |-> "sample", result |-> "running"]
  ELSE IF outcome = "panic" THEN [pc |-> "panic", result |-> "panic"]
  ELSE [pc |-> "done", result |-> outcome]

\* The instances a Reconstr is built over: predicate 1 is defined and
\* mentions no predicate, predicate 2 is defined from predicate 1 or has no
\* definition, the others have none.
ReconstrDefs ==
  { [pred \in InstPreds |->
       IF pred = 1 THEN Def({}) ELSE IF pred = 2 THEN d ELSE NoDef] :
      d \in {NoDef, Def({1})} }

\* The clauses of `original`: their right-hand side is predicate 3, their
\* left-hand side mentions predicate 1, predicate 2, both or none.
OrigClauses ==
  { OrigClause(3, lhs, ir) : lhs \in SUBSET {1, 2}, ir \in {"same", "none"} }

Originals == UNION { [1 .. n -> OrigClauses] : n \in 0 .. MaxClauses }

\* The samples to reconstruct: samples of predicate 3.
ToDos == { [i \in 1 .. n |-> Sample(3, <<i>>)] : n \in 0 .. MaxEntry }

\* Reconstr::new(original, instance, to_do, solver) up to its loop, on a
\* solver just spawned (line 142-145 and 189-191).
InitReconstr ==
  /\ pred_defs \in ReconstrDefs
  /\ safe_preds = {}
  /\ pos_preds = {}
  /\ fp = FALSE
  /\ passes = 0
  /\ original \in Originals
  /\ to_do \in ToDos
  /\ rc_samples = {}
  /\ solver = [defined |-> FALSE, reset |-> FALSE]
  /\ cur = NoSample
  /\ queries = <<>>
  /\ rc_pc = "new"
  /\ rc_result = "running"

\* The loop of new, run by Pass, has ended: work starts (line 359-362).
WorkStart ==
  /\ rc_pc = "new"
  /\ fp
  /\ \/ /\ solver' = [solver EXCEPT !.defined = (safe_preds # {})]
        /\ rc_pc' = "loop"
        /\ UNCHANGED rc_result
     \/ /\ safe_preds # {}
        /\ rc_pc' = "done"
        /\ rc_result' = "error"
        /\ UNCHANGED solver
  /\ UNCHANGED <<original, to_do, rc_samples, cur, queries>>

\* The head of the while loop with nothing left to do, and the end of work
\* (line 364 and 368-369).
Finish ==
  /\ rc_pc = "loop"
  /\ to_do = <<>>
  /\ rc_pc' = "done"
  /\ \/ /\ solver' = [solver EXCEPT !.reset = TRUE]
        /\ rc_result' = "ok"
     \/ /\ rc_result' = "error"
        /\ UNCHANGED solver
  /\ UNCHANGED <<original, to_do, rc_samples, cur, queries>>

\* to_do.pop() and work_on_sample up to its first work_on_clause call (line
\* 364-365 and 316-334); with no clause to try, up to its bail!.
NextSample ==
  /\ rc_pc = "loop"
  /\ to_do # <<>>
  /\ LET sample == to_do[Len(to_do)]
     IN  \E cl \in clauses_for(original, safe_preds, sample.pred) :
           /\ cur' = [some |-> TRUE, sample |-> sample,
                      clauses |-> cl.pos \o cl.others]
           /\ IF Len(cl.pos \o cl.others) = 0
                THEN rc_pc' = "done" /\ rc_result' = "unreconstructable"
                ELSE rc_pc' = "sample" /\ UNCHANGED rc_result
  /\ to_do' = SubSeq(to_do, 1, Len(to_do) - 1)
  /\ queries' = <<>>
  /\ UNCHANGED <<original, rc_samples, solver>>

\* One work_on_clause call of work_on_sample, on the next clause (line
\* 335-348), and what follows it.
Witness ==
  /\ rc_pc = "sample"
  /\ LET clause == cur.clauses[Len(queries) + 1]
     IN  \E answer \in WitnessAnswers(original[clause].lhs), debug \in BOOLEAN :
           LET w == work_on_clause(original, safe_preds, pos_preds, rc_samples,
                                   clause, answer, debug)
               a == after_clause(w.outcome,
                                 Len(cur.clauses) - (Len(queries) + 1))
           IN  /\ rc_samples' = w.samples
               /\ queries' = Append(queries,
                                    [clause |-> clause, answer |-> answer.kind,
                                     outcome |-> w.outcome])
               /\ rc_pc' = a.pc
               /\ rc_result' = a.result
  /\ UNCHANGED <<original, to_do, solver, cur>>

NextReconstr ==
  \/ Pass /\ UNCHANGED <<ep_vars, splitter_vars, work_vars, new_vars,
                         rewrite_vars, reconstr_vars>>
  \/ WorkStart /\ UNCHANGED <<ep_vars, splitter_vars, work_vars, new_vars,
                              rewrite_vars, safe_vars>>
  \/ NextSample /\ UNCHANGED <<ep_vars, splitter_vars, work_vars, new_vars,
                               rewrite_vars, safe_vars>>
  \/ Witness /\ UNCHANGED <<ep_vars, splitter_vars, work_vars, new_vars,
                            rewrite_vars, safe_vars>>
  \/ Finish /\ UNCHANGED <<ep_vars, splitter_vars, work_vars, new_vars,
                           rewrite_vars, safe_vars>>

\* No Reconstr at work.
IdleReconstr ==
  /\ original = <<>>
  /\ to_do = <<>>
  /\ rc_samples = {}
  /\ solver = [defined |-> FALSE, reset |-> FALSE]
  /\ cur = NoSample
  /\ queries = <<>>
  /\ rc_pc = "idle"
  /\ rc_result = "running"

(***************************************************************************)
(* The registry driven by its callers.                                     *)
(***************************************************************************)
\* ep_last: the call, its arguments (dep = sample for the one-argument calls),
\* whether it returned Ok, the set it returned (entry_points_of only), and
\* what the registry held for its arguments when it was made.
NoCall ==
  [op |-> "new", sample |-> 1, dep |-> 1, ok |-> TRUE, samples |-> {},
   dep_real |-> FALSE, dep_key |-> FALSE, sample_real |-> FALSE,
   sample_key |-> FALSE, sample_set |-> {}]

CallRecord(op, sample, dep, ok, samples) ==
  [op |-> op, sample |-> sample, dep |-> dep, ok |-> ok, samples |-> samples,
   dep_real |-> dep \in real_pos_samples,
   dep_key |-> dep \in DOMAIN pos_sample_map,
   sample_real |-> sample \in real_pos_samples,
   sample_key |-> sample \in DOMAIN pos_sample_map,
   sample_set |-> IF sample \in DOMAIN pos_sample_map
                    THEN pos_sample_map[sample] ELSE {}]

\* ep_seen: nothing observed yet, or the set an earlier entry_points_of(sample)
\* returned, with whether register(sample), register_dep(sample, _) or any
\* other modifying call was made since.
NotSeen ==
  [seen |-> FALSE, sample |-> 1, samples |-> {}, registered |-> FALSE,
   dep_registered |-> FALSE, others |-> FALSE]

InitEP ==
  /\ real_pos_samples = EntryPointsNew.real
  /\ pos_sample_map = EntryPointsNew.map
  /\ ep_last = NoCall
  /\ ep_seen = NotSeen

Register(sample) ==
  LET r == register(real_pos_samples, pos_sample_map, sample)
  IN  /\ real_pos_samples' = r.real
      /\ pos_sample_map' = r.map
      /\ ep_last' = CallRecord("register", sample, sample, TRUE, {})
      /\ ep_seen' = IF ~ep_seen.seen THEN ep_seen
                    ELSE IF ep_seen.sample = sample
                      THEN [ep_seen EXCEPT !.registered = TRUE]
                      ELSE [ep_seen EXCEPT !.others = TRUE]

RegisterDep(sample, dep) ==
  LET r == register_dep(real_pos_samples, pos_sample_map, sample, dep)
  IN  /\ real_pos_samples' = r.real
      /\ pos_sample_map' = r.map
      /\ ep_last' = CallRecord("register_dep", sample, dep, r.ok, {})
      /\ ep_seen' = IF ~ep_seen.seen THEN ep_seen
                    ELSE IF ep_seen.sample = sample
                      THEN [ep_seen EXCEPT !.dep_registered = TRUE]
                      ELSE [ep_seen EXCEPT !.others = TRUE]

\* entry_points_of takes &self: the registry is not changed.  The observer
\* keeps the result of a successful call, or lets it pass.
EntryPointsOf(sample) ==
  LET r == entry_points_of(real_pos_samples, pos_sample_map, sample)
  IN  /\ UNCHANGED <<real_pos_samples, pos_sample_map>>
      /\ ep_last' = CallRecord("entry_points_of", sample, sample, r.ok, r.samples)
      /\ \/ /\ r.ok
            /\ ep_seen' = [seen |-> TRUE, sample |-> sample, samples |-> r.samples,
                           registered |-> FALSE, dep_registered |-> FALSE,
                           others |-> FALSE]
         \/ ep_seen' = ep_seen

NextEP ==
  \/ \E sample \in Samples :
       Register(sample) /\ UNCHANGED <<splitter_vars, work_vars, rest_vars>>
  \/ \E sample \in Samples, dep \in Samples :
       RegisterDep(sample, dep) /\ UNCHANGED <<splitter_vars, work_vars, rest_vars>>
  \/ \E sample \in Samples :
       EntryPointsOf(sample) /\ UNCHANGED <<splitter_vars, work_vars, rest_vars>>

\* The splitter of an instance with no negative clause, never called.
IdleSplitter ==
  /\ instance = [clauses |-> Background, known |-> {}]
  /\ conf = [split |-> FALSE, infer |-> FALSE, split_sort |-> FALSE]
  /\ splitter = SplitterNew(instance, conf, <<>>)
  /\ sp_info = Ret("new")
  /\ sp_last = Ret("new")
  /\ sp_calls = 0
  /\ preproc_log = <<>>

\* Nothing else is run.
IdleRecon == IdleRewrite /\ IdleSafe /\ IdleReconstr

IdleRest == IdleNew /\ IdleRecon

\* The registry driven by its callers; no splitter is called.
InitSpecEP == InitEP /\ IdleSplitter /\ IdleWork /\ IdleRest

SpecEP == InitSpecEP /\ [][NextEP]_vars

\* The Splitter driven by its callers; the registry is not called.
InitSpecSplitter == InitSplitter /\ IdleWork /\ InitEP /\ IdleRest

SpecSplitter == InitSpecSplitter /\ [][NextSplitter]_vars

\* work run on an instance; the registry is not called.
InitSpecWork == InitWork /\ InitEP /\ IdleRest

SpecWork == InitSpecWork /\ [][NextWork]_vars

\* Splitter::new run on an instance; nothing else is called.
InitSpecNew == InitNew /\ IdleWork /\ InitEP /\ IdleRecon

SpecNew == InitSpecNew /\ [][NextNew]_vars

\* Entry::rewrite run on an entry; nothing else is called.
InitSpecRewrite ==
  /\ InitRewrite /\ InitEP /\ IdleSplitter /\ IdleWork /\ IdleNew /\ IdleSafe
  /\ IdleReconstr

SpecRewrite == InitSpecRewrite /\ [][NextRewrite]_vars

\* The loop of Reconstr::new run over an instance; nothing else is called.
InitSpecSafe ==
  /\ InitSafe /\ InitEP /\ IdleSplitter /\ IdleWork /\ IdleNew /\ IdleRewrite
  /\ IdleReconstr

SpecSafe == InitSpecSafe /\ [][NextSafe]_vars

\* Reconstr::new(..).work(), as Entry::reconstruct runs it (line 145);
\* nothing else is called.
InitSpecReconstr ==
  /\ InitReconstr /\ InitEP /\ IdleSplitter /\ IdleWork /\ IdleNew
  /\ IdleRewrite

SpecReconstr == InitSpecReconstr /\ [][NextReconstr]_vars

(***************************************************************************)
(* Claims about the registry, checked under SpecEP.                        *)
(***************************************************************************)
\* C5: register_dependency(s, dep) fails with UnknownSample if and only if
\* dep is neither a real positive sample nor a key of the dependency map at
\* the time of the call, s = dep included.
C5_FailsIffDepUnknown ==
  ep_last.op = "register_dep" =>
    (~ep_last.ok <=> (~ep_last.dep_real /\ ~ep_last.dep_key))

\* C6: entry_points_of(sample) returns {sample} when sample is real, otherwise
\* the set stored for sample, otherwise an error; and right after a successful
\* register_dependency(s, d) with d real and s neither real nor a key, what
\* entry_points_of(s) returns is exactly {d}.
C6_EntryPointsOf ==
  /\ ep_last.op = "entry_points_of" =>
       IF ep_last.sample \in real_pos_samples
         THEN ep_last.ok /\ ep_last.samples = {ep_last.sample}
         ELSE IF ep_last.sample \in DOMAIN pos_sample_map
           THEN ep_last.ok /\ ep_last.samples = pos_sample_map[ep_last.sample]
           ELSE ~ep_last.ok
  /\ ( /\ ep_last.op = "register_dep"
       /\ ep_last.dep_real
       /\ ~ep_last.sample_real
       /\ ~ep_last.sample_key )
     => /\ ep_last.ok
        /\ entry_points_of(real_pos_samples, pos_sample_map, ep_last.sample)
             = [ok |-> TRUE, samples |-> {ep_last.dep}]

\* C6 witness: entry_points_of was called on a sample that is not real and
\* returned the one real sample it was registered to depend on.
C6_Witness ==
  /\ ep_last.op = "entry_points_of"
  /\ ep_last.ok
  /\ ~ep_last.sample_real
  /\ \E d \in real_pos_samples : d # ep_last.sample /\ ep_last.samples = {d}

\* C7, as claimed: a set entry_points_of(s) returned is what every later
\* entry_points_of(s) returns, as long as no register_dependency call with
\* first argument s was made in between.
C7_StableUntilRegisterDep ==
  (ep_seen.seen /\ ~ep_seen.dep_registered) =>
    entry_points_of(real_pos_samples, pos_sample_map, ep_seen.sample)
      = [ok |-> TRUE, samples |-> ep_seen.samples]

\* C7, amended: a set entry_points_of(s) returned is what every later
\* entry_points_of(s) returns, as long as neither a register_dependency call
\* with first argument s nor a register(s) call was made in between.
C7_StableUntilRegistered ==
  (ep_seen.seen /\ ~ep_seen.dep_registered /\ ~ep_seen.registered) =>
    entry_points_of(real_pos_samples, pos_sample_map, ep_seen.sample)
      = [ok |-> TRUE, samples |-> ep_seen.samples]

\* C7 witness: entry_points_of(s) returned a set, calls on other samples
\* followed, and entry_points_of(s) was called again.
C7_Witness ==
  /\ ep_seen.seen
  /\ ep_seen.others
  /\ ~ep_seen.dep_registered
  /\ ~ep_seen.registered
  /\ ep_last.op = "entry_points_of"
  /\ ep_last.sample = ep_seen.sample
  /\ ep_last.ok

\* C8: every sample of every stored dependency set is a real positive sample
\* or a key of the dependency map.
C8_ValuesKnown ==
  \A k \in DOMAIN pos_sample_map :
    \A x \in pos_sample_map[k] :
      x \in real_pos_samples \/ x \in DOMAIN pos_sample_map

\* C8 witness: a register_dependency call has just failed on a registry that
\* stores a non-empty dependency set.
C8_Witness ==
  /\ ep_last.op = "register_dep"
  /\ ~ep_last.ok
  /\ \E k \in DOMAIN pos_sample_map : pos_sample_map[k] # {}

\* The justification set of the dep of the last register_dep call, when the
\* call returned Ok: {dep} if dep is real, the set stored for dep if not (dep
\* is then another sample than the one registered, and its set is the one it
\* had when the call was made).
DepJustification ==
  IF ep_last.dep \in real_pos_samples
    THEN {ep_last.dep}
    ELSE pos_sample_map[ep_last.dep]

\* C15, as claimed: after a successful register_dependency(s, dep) the set
\* stored for s is exactly the justification set of dep.
C15_SetReplaced ==
  (ep_last.op = "register_dep" /\ ep_last.ok) =>
    pos_sample_map[ep_last.sample] = DepJustification

\* C15, amended: after a successful register_dependency(s, dep) the set
\* stored for s is the set s had before (none: empty) together with the
\* justification set of dep.
C15_SetExtended ==
  (ep_last.op = "register_dep" /\ ep_last.ok) =>
    /\ ep_last.sample \in DOMAIN pos_sample_map
    /\ pos_sample_map[ep_last.sample] = ep_last.sample_set \cup DepJustification

\* C15 witness: a successful register_dependency(s, dep) on a sample s that
\* had a set with a sample that is not of the justification set of dep.
C15_Witness ==
  /\ ep_last.op = "register_dep"
  /\ ep_last.ok
  /\ ep_last.sample_key
  /\ \E x \in ep_last.sample_set : x \notin DepJustification

(***************************************************************************)
(* Claims about the Splitter, checked under SpecSplitter.                  *)
(***************************************************************************)
\* Whether the driver of the instance is Active: splitting is enabled and
\* the instance has more than one negative clause.
DriverActive == conf.split /\ Cardinality(neg_clauses(instance)) > 1

\* Whether clause a has to be produced before clause b: a is strictly
\* negative and b is not; or they agree on that, and a is from unrolling and
\* b is not; or they agree on both and a's key is higher.
Outranks(a, b) ==
  LET ca == instance.clauses[a]
      cb == instance.clauses[b]
      ka == IF conf.split_sort THEN clause_key(instance, conf, a) ELSE -(a - 1)
      kb == IF conf.split_sort THEN clause_key(instance, conf, b) ELSE -(b - 1)
  IN  \/ ca.strict /\ ~cb.strict
      \/ ca.strict = cb.strict /\ ca.unroll /\ ~cb.unroll
      \/ ca.strict = cb.strict /\ ca.unroll = cb.unroll /\ ka > kb

\* C4: the clauses an Active driver has produced so far come in priority
\* order: no clause was produced after a clause it outranks (strictness first,
\* then unrolling, then the key).
C4_PriorityOrder ==
  DriverActive =>
    \A i, j \in 1 .. Len(preproc_log) :
      i < j => ~Outranks(preproc_log[j].clause, preproc_log[i].clause)

\* C4 witness: with scoring on, a strictly negative clause was produced
\* before a clause that is not strictly negative and has a higher score, and
\* every clause has been produced.
C4_Witness ==
  /\ DriverActive
  /\ conf.split_sort
  /\ Len(preproc_log) = Cardinality(neg_clauses(instance))
  /\ \E i, j \in 1 .. Len(preproc_log) :
       /\ i < j
       /\ instance.clauses[preproc_log[i].clause].strict
       /\ ~instance.clauses[preproc_log[j].clause].strict
       /\ clause_key(instance, conf, preproc_log[j].clause)
            > clause_key(instance, conf, preproc_log[i].clause)

\* C10: the first next_instance call on an Inactive driver returns the
\* top-level instance and every later one returns done, and preproc is never
\* called; on an Active driver, every call after as many calls as there are
\* negative clauses returns done.
C10_DoneAbsorbing ==
  /\ ~DriverActive => preproc_log = <<>>
  /\ (sp_calls > 0 /\ ~DriverActive) =>
       sp_last.kind = (IF sp_calls = 1 THEN "top" ELSE "done")
  /\ (DriverActive /\ sp_calls > Cardinality(neg_clauses(instance))) =>
       sp_last.kind = "done"

\* C10 witness: an Inactive driver over an instance with one negative clause
\* and splitting enabled was called three times.
C10_Witness ==
  /\ conf.split
  /\ Cardinality(neg_clauses(instance)) = 1
  /\ sp_calls = 3
  /\ sp_last.kind = "done"

(***************************************************************************)
(* Claims about work, checked under SpecWork.                              *)
(***************************************************************************)
\* The model given to the last model!(add ..) of the current iteration: the
\* teacher's, or the trivial model of preprocessing.
LastMerged ==
  IF teacher_last.kind = "sat" THEN teacher_last.m
  ELSE IF sp_last.kind = "model" THEN sp_last.m
  ELSE <<>>

\* Whether the candidates mdl account for fragment f of predicate p: f is in
\* the list of p, or the list holds false.
Holds(mdl, p, f) ==
  /\ p \in DOMAIN mdl
  /\ \E i \in 1 .. Len(mdl[p]) : mdl[p][i] = f \/ mdl[p][i] = "false"

\* C1: the list accumulated for a predicate that is not known holds no
\* fragment twice, and holds nothing beside a false fragment.
C1_NoDuplicateNoFalseMix ==
  \A p \in DOMAIN model :
    ~is_known(instance, p) =>
      /\ \A i, j \in 1 .. Len(model[p]) : i # j => model[p][i] # model[p][j]
      /\ (\E i \in 1 .. Len(model[p]) : model[p][i] = "false")
           => Len(model[p]) = 1

\* C1 witness: fragment a was merged for a predicate whose list is false
\* alone, and the list is still false alone.
C1_Witness ==
  /\ LastMerged = << <<1, "a">> >>
  /\ 1 \in DOMAIN model
  /\ model[1] = <<"false">>

TimesIsolated(c) ==
  Cardinality({ i \in 1 .. Len(preproc_log) : preproc_log[i].clause = c })

\* Whether the loop of work was left because next_instance returned None.
RanToDone == pc = "done" /\ sp_last.kind = "done"

\* C3, as claimed: when the loop has run to done with scoring disabled, every
\* negative clause was given to preproc as the clause to isolate exactly once.
C3_EveryNegClauseOnce ==
  (RanToDone /\ ~conf.split_sort) =>
    \A c \in neg_clauses(instance) : TimesIsolated(c) = 1

\* C3, amended: so it is when splitting is enabled and the instance has more
\* than one negative clause.
C3_EveryNegClauseOnceIfActive ==
  (RanToDone /\ ~conf.split_sort /\ DriverActive) =>
    \A c \in neg_clauses(instance) : TimesIsolated(c) = 1

\* C3 witness: the loop has run to done over three or more negative clauses,
\* splitting enabled and scoring disabled.
C3_Witness ==
  /\ RanToDone
  /\ ~conf.split_sort
  /\ DriverActive
  /\ Cardinality(neg_clauses(instance)) > 2
  /\ Len(preproc_log) > 2

\* C9: out of inference mode run_teacher is never called and a loop that ran
\* to done returns None; in inference mode a loop that ran to done returns the
\* candidates, and the candidates account for every fragment merged: for the
\* fragments of the model merged last (of a predicate that is not known, and
\* not true), and from one step to the next for the fragments they held.
C9_ResultOfLoop ==
  [][ /\ ~conf.infer => teacher_calls' = 0
      /\ (pc' = "done" /\ sp_last'.kind = "done") =>
           result' = (IF conf.infer
                        THEN [kind |-> "model", model |-> model']
                        ELSE [kind |-> "none", model |-> EmptyModel])
      /\ \A i \in 1 .. Len(LastMerged') :
           (~is_known(instance, LastMerged'[i][1]) /\ LastMerged'[i][2] # "true")
             => Holds(model', LastMerged'[i][1], LastMerged'[i][2])
      /\ \A p \in DOMAIN model :
           \A i \in 1 .. Len(model[p]) : Holds(model', p, model[p][i])
    ]_vars

\* C9 witness: in inference mode the loop ran to done after two calls of the
\* teacher, and returned candidates with two fragments for predicate 1.
C9_Witness ==
  /\ conf.infer
  /\ RanToDone
  /\ teacher_calls > 1
  /\ result.kind = "model"
  /\ 1 \in DOMAIN result.model
  /\ result.model[1] = <<"a", "b">>

\* C20: merging one pair whose fragment evaluates to true leaves the
\* candidates as they were, keys included.
C20_TrueIsNoOp ==
  [][ \A p \in Preds :
        LastMerged' = << <<p, "true">> >> => model' = model ]_vars

(***************************************************************************)
(* Claims about Splitter::new, checked under SpecNew.                      *)
(***************************************************************************)
\* Whether some clause with pred as right-hand side has no predicate in its
\* left-hand side.
HasFact(inst, pred) ==
  \E c \in rhs_clauses_of(inst, pred) : Len(inst.clauses[c].lhs) = 0

\* C14: with scoring enabled, the number new pairs with a negative clause is
\* 0 when some predicate of the left-hand side of the clause has a fact.
C14_FactBackedScoresZero ==
  (new_keys.done /\ conf.split_sort) =>
    \A c \in DOMAIN new_keys.keys :
      (\E i \in 1 .. Len(instance.clauses[c].lhs) :
         HasFact(instance, instance.clauses[c].lhs[i]))
        => new_keys.keys[c] = 0

(***************************************************************************)
(* Claims about Entry::rewrite, checked under SpecRewrite.                 *)
(***************************************************************************)
\* The arguments read back from a rewritten sample: for each argument of the
\* current signature, the value at its position in the original one.
ReadBack(sg, nu_args) == [var \in 1 .. Len(sg.map) |-> nu_args[sg.map[var]]]

\* C13: each sample of the entry is rewritten to a sample of the same
\* predicate, as long as the original signature, from which reading the
\* mapped positions back gives the arguments the sample had.
C13_RewriteRoundTrip ==
  rewritten.done =>
    /\ Len(rewritten.samples) = Cardinality(entry_samples)
    /\ \A i \in 1 .. Len(rewritten.samples) :
         LET s  == in_order(entry_samples)[i]
             nu == rewritten.samples[i]
         IN  /\ nu.pred = s.pred
             /\ Len(nu.args) = orig_sigs[s.pred].len
             /\ ReadBack(orig_sigs[s.pred], nu.args) = s.args

\* C13 witness: two samples were rewritten, one of them to a signature with
\* more arguments, its first argument moved to another position.
C13_Witness ==
  /\ rewritten.done
  /\ Len(rewritten.samples) = 2
  /\ \E i \in 1 .. Len(rewritten.samples) :
       LET s == in_order(entry_samples)[i]
       IN  /\ Len(s.args) > 0
           /\ orig_sigs[s.pred].len > Len(s.args)
           /\ orig_sigs[s.pred].map[1] # 1
           /\ \E k \in 1 .. Len(rewritten.samples[i].args) :
                rewritten.samples[i].args[k] = val_none

(***************************************************************************)
(* Claims about Reconstr::new, checked under SpecSafe.                     *)
(***************************************************************************)
\* Every predicate of `set` has a definition that mentions predicates of
\* `set` only.
Justified(defs, set) ==
  \A p \in set : defs[p].defined /\ defs[p].preds \subseteq set

\* No predicate outside `set` has a definition that mentions predicates of
\* `set` only.
Closed(defs, set) ==
  \A p \in DOMAIN defs :
    (defs[p].defined /\ defs[p].preds \subseteq set) => p \in set

\* The least set closed under the rule: what all closed sets have in common.
LeastClosed(defs) ==
  { p \in DOMAIN defs :
      \A set \in SUBSET DOMAIN defs : Closed(defs, set) => p \in set }

\* C16: the safe predicates new has computed are the least fixpoint of the
\* rule: each has a definition that mentions safe predicates only, no other
\* predicate has such a definition, and no smaller set is closed.
C16_LeastFixpoint ==
  fp =>
    /\ Justified(pred_defs, safe_preds)
    /\ Closed(pred_defs, safe_preds)
    /\ safe_preds = LeastClosed(pred_defs)

\* C16 witness: the loop has ended with a safe predicate, and with two
\* predicates left out whose definitions mention each other.
C16_Witness ==
  /\ fp
  /\ safe_preds # {}
  /\ \E p, q \in InstPreds \ safe_preds :
       /\ p # q
       /\ pred_defs[p].defined /\ q \in pred_defs[p].preds
       /\ pred_defs[q].defined /\ p \in pred_defs[q].preds

\* C17, as claimed: when the computed set is not empty, a predicate taken out
\* of it leaves some other predicate of the set with a definition that
\* mentions a predicate outside.
C17_RemovalBreaksAnother ==
  (fp /\ safe_preds # {}) =>
    \A p \in safe_preds : ~Justified(pred_defs, safe_preds \ {p})

\* C17, amended: a predicate taken out of the computed set leaves some other
\* predicate of the set with a definition that mentions a predicate outside,
\* or is itself a predicate outside with a definition that mentions
\* predicates of what is left only.
C17_RemovalBreaksFixpoint ==
  (fp /\ safe_preds # {}) =>
    \A p \in safe_preds :
      \/ ~Justified(pred_defs, safe_preds \ {p})
      \/ pred_defs[p].defined /\ pred_defs[p].preds \subseteq safe_preds \ {p}

\* C17 witness: the loop has ended with two safe predicates or more, one that
\* another one mentions and one that no other one mentions.
C17_Witness ==
  /\ fp
  /\ \E p, q \in safe_preds :
       /\ p # q
       /\ ~Justified(pred_defs, safe_preds \ {p})
       /\ Justified(pred_defs, safe_preds \ {q})

\* C18, as claimed: the body of the loop runs at most as many times as the
\* instance has predicates, and the loop has ended when it has run that many
\* times.
C18_AtMostPredsPasses ==
  /\ passes <= NumPreds
  /\ passes = NumPreds => fp

\* C18, amended: the body of the loop runs at most once more than the
\* instance has predicates, and the loop has ended when it has run that many
\* times (each run is a loop over the predicates, and adds one to the number
\* of runs: the loop ends).
C18_AtMostPredsPlusOnePasses ==
  /\ passes <= NumPreds + 1
  /\ passes = NumPreds + 1 => fp

\* C18 witness: the loop has ended after one run more than the instance has
\* predicates.
C18_Witness ==
  /\ fp
  /\ passes = NumPreds + 1

(***************************************************************************)
(* Claims about Reconstr::work, checked under SpecReconstr.                *)
(***************************************************************************)
\* Clause c of `original` is a fact clause of pred: pred is its right-hand
\* side, and its left-hand side has no predicate.
IsFact(c, pred) == original[c].rhs = pred /\ original[c].lhs = {}

\* Clause c of `original` is a usable clause of pred: pred is its right-hand
\* side, and the predicates of its left-hand side, one at least, are safe.
IsUsable(c, pred) ==
  /\ original[c].rhs = pred
  /\ original[c].lhs # {}
  /\ original[c].lhs \subseteq safe_preds

\* Clause c was queried for the current sample, before query i, and did not
\* witness it.
FailedBefore(c, i) ==
  \E j \in 1 .. (i - 1) :
    queries[j].clause = c /\ queries[j].outcome = "false"

\* C11: for the sample work_on_sample is on, only fact and usable clauses of
\* its predicate are queried, none twice; a usable clause is queried only
\* after every fact clause was queried and did not witness the sample; every
\* query before the last one did not witness it, so that nothing is queried
\* after a success; and work fails with the could-not-reconstruct error
\* exactly when every fact clause and every usable clause was queried and
\* none witnessed the sample.
C11_FactsFirstStopAtSuccess ==
  cur.some =>
    LET pred == cur.sample.pred
        n    == Len(queries)
    IN  /\ \A i \in 1 .. n :
             /\ IsFact(queries[i].clause, pred) \/ IsUsable(queries[i].clause, pred)
             /\ \A j \in 1 .. n : i # j => queries[i].clause # queries[j].clause
             /\ IsUsable(queries[i].clause, pred) =>
                  \A c \in 1 .. Len(original) : IsFact(c, pred) => FailedBefore(c, i)
             /\ i < n => queries[i].outcome = "false"
        /\ rc_result = "unreconstructable" <=>
             /\ rc_pc # "sample"
             /\ \A c \in 1 .. Len(original) :
                  (IsFact(c, pred) \/ IsUsable(c, pred)) => FailedBefore(c, n + 1)

\* C11 witness: a usable clause has witnessed the sample after a fact clause
\* did not.
C11_Witness ==
  /\ cur.some
  /\ Len(queries) = 2
  /\ IsFact(queries[1].clause, cur.sample.pred)
  /\ queries[1].outcome = "false"
  /\ IsUsable(queries[2].clause, cur.sample.pred)
  /\ queries[2].outcome = "true"
  /\ rc_pc # "sample"

\* C12: when work has returned, the solver was reset.
C12_ResetBeforeReturn ==
  rc_pc = "done" => solver.reset

\* C19: the samples found change in a work_on_clause call only, and in it
\* only by gaining samples of predicates of the left-hand side of the clause
\* that are positive, check_sat having answered true; and a call on a clause
\* with no predicate in its left-hand side for which check_sat answers true
\* gives Ok(true), the samples being what they were.
C19_WitnessAddsPositiveOnly ==
  [][ IF Len(queries') = Len(queries) + 1
        THEN LET q == queries'[Len(queries')]
             IN  /\ rc_samples \subseteq rc_samples'
                 /\ \A s \in rc_samples' \ rc_samples :
                      /\ q.answer \in {"sat", "eval_error"}
                      /\ s.pred \in pos_preds
                      /\ s.pred \in original[q.clause].lhs
                 /\ (q.answer = "sat" /\ original[q.clause].lhs = {}
                       /\ original[q.clause].inst_rhs = "same")
                      => (q.outcome = "true" /\ rc_samples' = rc_samples)
        ELSE rc_samples' = rc_samples ]_vars

\* C19 witness: check_sat has answered true for a clause with a positive and
\* a safe but not positive predicate in its left-hand side, and a sample of
\* the positive one only was found.
C19_Witness ==
  /\ cur.some
  /\ Len(queries) > 0
  /\ queries[Len(queries)].outcome = "true"
  /\ original[queries[Len(queries)].clause].lhs = {1, 2}
  /\ 2 \in safe_preds \ pos_preds
  /\ 1 \in pos_preds
  /\ \E s \in rc_samples : s.pred = 1
  /\ \A s \in rc_samples : s.pred # 2

(***************************************************************************)
(* Claims about the error paths of next_instance and register_dep.         *)
(***************************************************************************)
\* The clauses the next_instance calls made so far have popped from the
\* pending list: each pop is followed by one call to preproc (line 306-312).
Popped(n) == { preproc_log[j].clause : j \in 1 .. n }

\* C21: on an Active driver, every call to preproc was passed as excluded set
\* exactly the clauses popped by the earlier next_instance calls, the clause
\* to isolate not among them; once next_instance has returned, prev_clauses
\* is that set plus the clause; and info reports as handled the total minus
\* the number of clauses still pending.
C21_ExcludedIsPopped ==
  DriverActive =>
    /\ \A i \in 1 .. Len(preproc_log) :
         /\ preproc_log[i].prev_clauses = Popped(i - 1)
         /\ preproc_log[i].clause \notin preproc_log[i].prev_clauses
    /\ splitter.prev_clauses = Popped(Len(preproc_log))
    /\ info(splitter).kind = "info" =>
         /\ info(splitter).total = Cardinality(neg_clauses(instance))
         /\ info(splitter).handled
              = info(splitter).total - Len(splitter.pending)

\* C22: a register_dep(s, dep) call that fails leaves the registry as it was:
\* the real positive samples and the whole dependency map, the set stored
\* for s included, are the same after the call as before it, and so is what
\* entry_points_of(s) answers.
C22_FailedCallChangesNothing ==
  [][(ep_last'.op = "register_dep" /\ ~ep_last'.ok) =>
       /\ real_pos_samples' = real_pos_samples
       /\ pos_sample_map' = pos_sample_map
       /\ entry_points_of(real_pos_samples', pos_sample_map', ep_last'.sample)
            = entry_points_of(real_pos_samples, pos_sample_map, ep_last'.sample)]_vars

=============================================================================
